---- MODULE Spec2Model ----
(***************************************************************************)
(* Email-thread monitoring and reply orchestration of javis:               *)
(* javis/tools/email_monitor_task.py (the watcher and the monitored_threads*)
(* table), javis/tools/gmail.py (send_email) and                           *)
(* javis/tools/email_monitor.py (send_and_monitor_candidate_email).        *)
(*                                                                         *)
(* The watcher is modelled at the granularity of its awaits: the expiry    *)
(* sweep, the listing of the active rows, and per listed thread the mail   *)
(* check with the dedup gate, process_candidate_reply and the marker       *)
(* update.  The registering side (bot process), the candidate and the      *)
(* clock interleave between those steps; every SQL statement is atomic.    *)
(* Times are in hours, confidence scores in percent.                       *)
(***************************************************************************)
EXTENDS Integers, Sequences, FiniteSets, TLC

\* ---------------------------------------------------------------- bounds
MaxThreads == 2
MaxReplies == 2
MaxTime == 48
MaxDbFailures == 1

\* ------------------------------------------------------ program constants
NULL == 0
DefaultExpiryHours == 48
Threshold == 50
DefaultHr == "5318643303"

ThreadIds == 1..MaxThreads
MsgIds == 1..(MaxReplies + 1)
Candidates == {"c1@x", "c2@x"}
HrIds == {DefaultHr, "hr2"}
ExpiryHoursChoices == {24, DefaultExpiryHours}
Senders == {"system", "candidate"}
Confidences == {30, Threshold, 90}
Actions == {"schedule_interview", "notify_hr", "request_clarification"}
Missing == "<missing>"

VARIABLES
    monitored_threads,  \* the table: a set of rows
    mailbox,            \* Gmail: thread id -> sequence of senders, message id = position
    now,                \* CURRENT_TIMESTAMP / datetime.now(), in hours
    is_running,         \* the module-level flag
    pc,                 \* position of start_monitoring / check_threads
    active_threads,     \* the list returned by get_active_threads, not yet iterated
    thread,             \* the loop variable of check_threads (a row copy)
    reply_check,        \* result of check_email_replies for `thread`
    last,               \* what the last process_candidate_reply call did
    handled,            \* history: per thread, the message last given to process_candidate_reply
    sealed,             \* history: marker persisted when start_monitoring last began
    checked,            \* history: thread and outcome of the last check in check_threads
    dbFailures,         \* history: storage failures injected so far
    pending,            \* send_and_monitor_candidate_email between its two awaits
    fs,                 \* the filesystem of the file tools and the outcome of the last call
    event               \* the last create_calendar_event request of process_candidate_reply

vars == <<monitored_threads, mailbox, now, is_running, pc, active_threads,
          thread, reply_check, last, handled, sealed, checked, dbFailures,
          pending, fs, event>>

\* ------------------------------------------------------------ the table
Row(t, c, h, e, m) ==
    [thread_id |-> t, candidate_email |-> c, hr_telegram_id |-> h,
     expiry_time |-> e, last_message_id |-> m]

NoThread == Row(0, "", "", 0, NULL)

NoPending == [thread_id |-> 0, candidate_email |-> ""]

NoCheck == [thread_id |-> 0, outcome |-> "none"]

RowsOf(tbl, t) == {r \in tbl : r.thread_id = t}

\* a stored value MonitoredThread(**dict(row)) rejects
Unparseable == "<unparseable>"

Parses(r) == r.candidate_email # Unparseable

Monitored(tbl, t) == RowsOf(tbl, t) # {}

RowOf(tbl, t) == CHOOSE r \in RowsOf(tbl, t) : TRUE

\* an upsert that overwrites the whole row, marker included
add_thread_to_monitor_replace(tbl, t, c, h, expiry_hours, clock) ==
    {r \in tbl : r.thread_id # t} \cup {Row(t, c, h, clock + expiry_hours, NULL)}

add_thread_to_monitor(tbl, t, c, h, expiry_hours, clock) ==
    IF Monitored(tbl, t)
    THEN {IF r.thread_id = t
          THEN Row(t, c, h, clock + expiry_hours, r.last_message_id)
          ELSE r : r \in tbl}
    ELSE tbl \cup {Row(t, c, h, clock + expiry_hours, NULL)}

remove_thread_from_monitor(tbl, t) == {r \in tbl : r.thread_id # t}

\* a listing whose row copies come without last_message_id
get_active_threads_unmarked(tbl, clock) ==
    {Row(r.thread_id, r.candidate_email, r.hr_telegram_id, r.expiry_time, NULL) :
        r \in {q \in tbl : q.expiry_time > clock}}

get_active_threads(tbl, clock) == {r \in tbl : r.expiry_time > clock}

\* a marker update that saves the row as it was listed, with the new marker
update_thread_message_id_stale(tbl, t, m) ==
    {IF r.thread_id = t
     THEN Row(t, thread.candidate_email, thread.hr_telegram_id, thread.expiry_time, m)
     ELSE r : r \in tbl}

update_thread_message_id(tbl, t, m) ==
    {IF r.thread_id = t
     THEN Row(t, r.candidate_email, r.hr_telegram_id, r.expiry_time, m)
     ELSE r : r \in tbl}

\* a sweep that spares the row expiring at this very instant
remove_expired_threads_strict(tbl, clock) == {r \in tbl : ~(r.expiry_time < clock)}

remove_expired_threads(tbl, clock) == {r \in tbl : ~(r.expiry_time <= clock)}

\* storage may fail while the failure budget lasts
DbOutcomes == IF dbFailures < MaxDbFailures THEN {TRUE, FALSE} ELSE {TRUE}

\* ------------------------------------------------------------ the mailbox
Exists(t) == mailbox[t] # <<>>

RECURSIVE RepliesUpTo(_)
RepliesUpTo(t) ==
    IF t = 0 THEN 0
    ELSE RepliesUpTo(t - 1) + (IF Exists(t) THEN Len(mailbox[t]) - 1 ELSE 0)

TotalReplies == RepliesUpTo(MaxThreads)

FreshIds == {t \in ThreadIds : ~Exists(t)}

NewThreadId == CHOOSE t \in FreshIds : \A u \in FreshIds : t <= u

\* outcomes of send_email without thread_id: "sent" (sent and registered),
\* "unregistered" (sent, add_thread_to_monitor raised, reported as failed),
\* "failed" (nothing sent).  A new conversation needs an unused thread id.
MailOutcomes ==
    IF FreshIds = {} THEN {"failed"}
    ELSE {"sent", "failed"} \cup
         (IF dbFailures < MaxDbFailures THEN {"unregistered"} ELSE {})

MailStatus(mail) == IF mail = "sent" THEN "success" ELSE "failed"

\* ------------------------------------------------------------ classifier
Analysis(p, a, c, s, x) ==
    [parsed |-> p, agrees_to_schedule |-> a, confidence_score |-> c,
     suggested_action |-> s, explanation |-> x]

NoAnalysis == Analysis(FALSE, FALSE, 0, Missing, Missing)

\* what analyze_candidate_response + json.loads can deliver: a complete
\* analysis, one without suggested_action, one without explanation, or
\* nothing usable (exception, invalid JSON, no agrees/confidence field)
CompleteAnalyses ==
    {Analysis(TRUE, a, c, s, "text") :
        a \in BOOLEAN, c \in Confidences, s \in Actions}

MalformedAnalyses ==
    {Analysis(TRUE, a, c, Missing, "text") : a \in BOOLEAN, c \in {30, 90}}
    \cup {Analysis(TRUE, a, c, "request_clarification", Missing) :
            a \in BOOLEAN, c \in {30, 90}}
    \cup {NoAnalysis}

Analyses == CompleteAnalyses \cup MalformedAnalyses

CoreAnalyses ==
    {Analysis(TRUE, TRUE, 90, "schedule_interview", "text"),
     Analysis(TRUE, FALSE, 90, "notify_hr", "text"),
     Analysis(TRUE, FALSE, 30, "request_clarification", "text")}

Complete(an) ==
    an.parsed /\ an.suggested_action # Missing /\ an.explanation # Missing

\* scheduling on agreement alone, whatever the confidence
Schedules_any_confidence(an) == an.agrees_to_schedule

Schedules(an) == an.agrees_to_schedule /\ an.confidence_score >= Threshold

FollowupKind(an) ==
    IF an.suggested_action = "request_clarification"
    THEN "clarification" ELSE "decline_ack"

Effects(st, act, cal, em, ems, nt, an) ==
    [status |-> st, action |-> act, calendar |-> cal, email |-> em,
     email_status |-> ems, notify |-> nt, analysis |-> an]

NoEffects == Effects("none", "none", "none", "none", "none", "none", NoAnalysis)

\* a handler that notifies first and gives the reply up when that fails
process_candidate_reply_notify_first(an, cal_ok, mail, tg_ok) ==
    IF ~an.parsed
    THEN Effects("error", "none", "none", "none", "none", "none", an)
    ELSE IF ~tg_ok
    THEN Effects("error", "none", "none", "none", "none", "failed", an)
    ELSE IF Schedules(an)
    THEN IF an.explanation = Missing
         THEN Effects("error", "none", "none", "none", "none", "none", an)
         ELSE IF cal_ok
         THEN Effects("success", "scheduled", "created", "confirmation",
                      MailStatus(mail), "sent", an)
         ELSE Effects("error", "none", "failed", "none", "none", "sent", an)
    ELSE IF an.suggested_action = Missing \/ an.explanation = Missing
         THEN Effects("error", "none", "none", "none", "none", "sent", an)
         ELSE Effects("success", "notified_hr", "none", FollowupKind(an),
                      MailStatus(mail), "sent", an)

\* process_candidate_reply: which calls it makes and what it returns, given
\* the analysis and the outcomes of the calendar, mail and telegram calls
process_candidate_reply(an, cal_ok, mail, tg_ok) ==
    IF ~an.parsed
    THEN Effects("error", "none", "none", "none", "none", "none", an)
    ELSE IF Schedules(an)
    THEN IF an.explanation = Missing
         THEN Effects("error", "none", "none", "none", "none", "none", an)
         ELSE IF cal_ok
         THEN Effects("success", "scheduled", "created", "confirmation",
                      MailStatus(mail), "none", an)
         ELSE Effects("error", "none", "failed", "none", "none", "none", an)
    ELSE IF an.suggested_action = Missing
         THEN Effects("error", "none", "none", "none", "none", "none", an)
         ELSE IF an.explanation = Missing
         THEN Effects("error", "none", "none", FollowupKind(an),
                      MailStatus(mail), "none", an)
         ELSE Effects("success", "notified_hr", "none", FollowupKind(an),
                      MailStatus(mail),
                      IF tg_ok THEN "sent" ELSE "failed", an)

\* ---------------------------------------------------------- file tools
Absent == "<absent>"

Dir == "<dir>"

Contents == {"x", "y"}

\* the paths the tools are called with, one of them a folder, and the
\* paths inside that folder
Sources == {"a", "b"}

Folder == "d"

Dests == Sources \cup {Folder}

\* os.path.join(dst, os.path.basename(src))
Join(d, s) == IF s = "a" THEN "d/a" ELSE "d/b"

Paths == Dests \cup {Join(Folder, s) : s \in Sources}

NoFiles == [p \in Paths |-> Absent]

FsResult(op, out, s, d, ow) ==
    [op |-> op, outcome |-> out, source |-> s, destination |-> d, overwrite |-> ow]

NoResult == FsResult("none", "none", "", "", FALSE)

FsOutcome(F, out) == [files |-> F, outcome |-> out]

\* a copy that writes over whatever is at the destination
copy_file_clobber(F, s, d, ow, io) ==
    IF F[s] = Absent THEN FsOutcome(F, "FileNotFoundError")
    ELSE IF F[s] = Dir THEN FsOutcome(F, "IsADirectoryError")
    ELSE IF ~io THEN FsOutcome(F, "failed")
    ELSE IF F[d] = Dir THEN FsOutcome([F EXCEPT ![Join(d, s)] = F[s]], "success")
    ELSE IF d = s THEN FsOutcome(F, "failed")
    ELSE FsOutcome([F EXCEPT ![d] = F[s]], "success")

\* copy_file: the three checks that raise, then shutil.copy2, which copies
\* into a destination that is a folder and refuses to copy a file onto
\* itself; its exceptions become a result with success False
copy_file(F, s, d, ow, io) ==
    IF F[s] = Absent THEN FsOutcome(F, "FileNotFoundError")
    ELSE IF F[s] = Dir THEN FsOutcome(F, "IsADirectoryError")
    ELSE IF F[d] # Absent /\ ~ow THEN FsOutcome(F, "FileExistsError")
    ELSE IF ~io THEN FsOutcome(F, "failed")
    ELSE IF F[d] = Dir THEN FsOutcome([F EXCEPT ![Join(d, s)] = F[s]], "success")
    ELSE IF d = s THEN FsOutcome(F, "failed")
    ELSE FsOutcome([F EXCEPT ![d] = F[s]], "success")

\* move_file: the two checks that raise, then shutil.move, which moves into
\* a destination that is a folder unless the name is taken there, and
\* otherwise renames (a rename of a file to itself does nothing)
move_file(F, s, d, ow, io) ==
    IF F[s] = Absent THEN FsOutcome(F, "FileNotFoundError")
    ELSE IF F[d] # Absent /\ ~ow THEN FsOutcome(F, "FileExistsError")
    ELSE IF ~io THEN FsOutcome(F, "failed")
    ELSE IF F[d] = Dir
    THEN IF F[Join(d, s)] # Absent THEN FsOutcome(F, "failed")
         ELSE FsOutcome([F EXCEPT ![Join(d, s)] = F[s], ![s] = Absent], "success")
    ELSE IF d = s THEN FsOutcome(F, "success")
    ELSE FsOutcome([F EXCEPT ![d] = F[s], ![s] = Absent], "success")

\* ------------------------------------------------------- meeting time
\* a datetime: a day number (day 0 is a Monday) and the minute of the day
DateTime(d, m) == [day |-> d, minute |-> m]

MinutesPerDay == 1440

TenOClock == 600

OneHour == 60

Weekday(d) == d % 7

Weekend == {5, 6}

\* analysis.get("confirm_datetime"): whether the key carries a value, whether
\* strptime parses it with "%Y-%m-%d %H:%M", and the datetime it parses to
Confirm(d, m) == [given |-> TRUE, parses |-> TRUE, dt |-> DateTime(d, m)]

None == [given |-> FALSE, parses |-> FALSE, dt |-> DateTime(0, 0)]

Invalid == [given |-> TRUE, parses |-> FALSE, dt |-> DateTime(0, 0)]

\* datetime.now() at the time of the call: any day of a week, at some times
Nows == {DateTime(d, m) : d \in 0..6, m \in {0, 599, 600, 1439}}

\* the values of confirm_datetime: absent, unparseable, a weekday afternoon,
\* a Saturday morning, and half an hour before midnight
ConfirmDatetimes ==
    {None, Invalid, Confirm(2, 840), Confirm(5, 540), Confirm(3, 1410)}

\* dt + timedelta(minutes = n)
PlusMinutes(dt, n) ==
    DateTime(dt.day + ((dt.minute + n) \div MinutesPerDay),
             (dt.minute + n) % MinutesPerDay)

\* the start of the event: the parsed confirm_datetime, else
\* datetime.now() + timedelta(days=1) with the time replaced by 10:00:00
meeting_time(nowdt, confirm) ==
    IF confirm.given
    THEN confirm.dt
    ELSE DateTime(nowdt.day + 1, TenOClock)

end_time(start) == PlusMinutes(start, OneHour)

NoEvent == [at |-> DateTime(0, 0), confirm |-> None, created |-> FALSE,
            start |-> DateTime(0, 0), end |-> DateTime(0, 0)]

\* ---------------------------------------------------------------- Init
Init ==
    /\ monitored_threads = {}
    /\ mailbox = [t \in ThreadIds |-> <<>>]
    /\ now = 0
    /\ is_running = TRUE
    /\ pc = "stopped"
    /\ active_threads = <<>>
    /\ thread = NoThread
    /\ reply_check = [status |-> "none", has_reply |-> FALSE, message_id |-> NULL,
                      thread_id |-> 0]
    /\ last = NoEffects
    /\ handled = [t \in ThreadIds |-> NULL]
    /\ sealed = [t \in ThreadIds |-> NULL]
    /\ checked = NoCheck
    /\ dbFailures = 0
    /\ pending = NoPending
    /\ fs = [files |-> NoFiles, result |-> NoResult]
    /\ event = NoEvent

watcherVars == <<is_running, pc, active_threads, thread, reply_check, last,
                 handled, sealed, checked>>

\* ------------------------------------------------- registering side, world
\* a send_email that leaves the registration to its caller
send_email_unregistering(to, mail) ==
    /\ mail \in MailOutcomes
    /\ IF mail = "failed"
       THEN UNCHANGED <<mailbox, monitored_threads, dbFailures>>
       ELSE /\ mailbox' = [mailbox EXCEPT ![NewThreadId] = <<"system">>]
            /\ UNCHANGED <<monitored_threads, dbFailures>>

\* gmail.send_email without thread_id: a new conversation in Gmail and, when
\* add_thread_to_monitor succeeds, its row with the default contact and expiry
send_email(to, mail) ==
    /\ mail \in MailOutcomes
    /\ IF mail = "failed"
       THEN UNCHANGED <<mailbox, monitored_threads, dbFailures>>
       ELSE /\ mailbox' = [mailbox EXCEPT ![NewThreadId] = <<"system">>]
            /\ monitored_threads' =
                  IF mail = "sent"
                  THEN add_thread_to_monitor(monitored_threads, NewThreadId, to,
                                             DefaultHr, DefaultExpiryHours, now)
                  ELSE monitored_threads
            /\ dbFailures' = IF mail = "unregistered"
                             THEN dbFailures + 1 ELSE dbFailures

\* gmail.send_email with thread_id: the message joins the conversation;
\* the registration is under `if not thread_id` and is skipped
send_email_reply(t, ok) ==
    /\ mailbox' = IF ok THEN [mailbox EXCEPT ![t] = Append(@, "system")] ELSE mailbox
    /\ UNCHANGED <<monitored_threads, dbFailures>>

\* the agent's send_email tool, a reply inside an existing conversation
SendEmailReply(t, ok) ==
    /\ UNCHANGED <<fs, event>>
    /\ Exists(t)
    /\ Len(mailbox[t]) <= MaxReplies
    /\ send_email_reply(t, ok)
    /\ UNCHANGED <<now, pending, watcherVars>>

\* the agent's send_email tool, first contact
SendEmailNew(to, mail) ==
    /\ UNCHANGED <<fs, event>>
    /\ mail # "failed"
    /\ send_email(to, mail)
    /\ UNCHANGED <<now, pending, watcherVars>>

\* send_and_monitor_candidate_email up to its send_email; it goes on to
\* register only when the result's status is "success"
SendAndMonitorSend(to, mail) ==
    /\ UNCHANGED <<fs, event>>
    /\ pending = NoPending
    /\ mail # "failed"
    /\ send_email(to, mail)
    /\ pending' = IF MailStatus(mail) = "success"
                  THEN [thread_id |-> NewThreadId, candidate_email |-> to]
                  ELSE NoPending
    /\ UNCHANGED <<now, watcherVars>>

\* send_and_monitor_candidate_email: await add_thread_to_monitor(...)
SendAndMonitorRegister(h, e) ==
    /\ UNCHANGED <<fs, event>>
    /\ pending # NoPending
    /\ monitored_threads' =
          add_thread_to_monitor(monitored_threads, pending.thread_id,
                                pending.candidate_email, h, e, now)
    /\ pending' = NoPending
    /\ UNCHANGED <<mailbox, now, dbFailures, watcherVars>>

\* the candidate answers in a conversation
CandidateReply(t) ==
    /\ UNCHANGED <<fs, event>>
    /\ Exists(t)
    /\ TotalReplies < MaxReplies
    /\ mailbox' = [mailbox EXCEPT ![t] = Append(@, "candidate")]
    /\ UNCHANGED <<monitored_threads, now, dbFailures, pending, watcherVars>>

Tick(e) ==
    /\ UNCHANGED <<fs, event>>
    /\ now + e <= MaxTime
    /\ now' = now + e
    /\ UNCHANGED <<monitored_threads, mailbox, dbFailures, pending, watcherVars>>

\* ------------------------------------------------------------ the watcher
Marker(tbl, t) == IF Monitored(tbl, t) THEN RowOf(tbl, t).last_message_id ELSE NULL

NoReply == [status |-> "none", has_reply |-> FALSE, message_id |-> NULL, thread_id |-> 0]

start_monitoring ==
    /\ UNCHANGED <<fs, event>>
    /\ pc = "stopped"
    /\ is_running' = TRUE
    /\ pc' = "loop"
    /\ active_threads' = <<>>
    /\ thread' = NoThread
    /\ reply_check' = NoReply
    /\ last' = NoEffects
    /\ sealed' = [t \in ThreadIds |-> Marker(monitored_threads, t)]
    /\ checked' = NoCheck
    /\ UNCHANGED <<monitored_threads, mailbox, now, handled, dbFailures, pending>>

stop_monitoring ==
    /\ UNCHANGED <<fs, event>>
    /\ is_running
    /\ is_running' = FALSE
    /\ UNCHANGED <<monitored_threads, mailbox, now, pc, active_threads, thread,
                   reply_check, last, handled, sealed, checked, dbFailures, pending>>

\* a loop that a cleared flag ends wherever the cycle stands
LoopExit_anywhere ==
    /\ UNCHANGED <<fs, event>>
    /\ pc # "stopped"
    /\ ~is_running
    /\ pc' = "stopped"
    /\ UNCHANGED <<monitored_threads, mailbox, now, is_running, active_threads,
                   thread, reply_check, last, handled, sealed, checked, dbFailures, pending>>

\* while is_running: ... is left once the flag is seen cleared
LoopExit ==
    /\ UNCHANGED <<fs, event>>
    /\ pc = "loop"
    /\ ~is_running
    /\ pc' = "stopped"
    /\ UNCHANGED <<monitored_threads, mailbox, now, is_running, active_threads,
                   thread, reply_check, last, handled, sealed, checked, dbFailures, pending>>

\* for thread in active_threads: the next element, or the end of the cycle
\* (asyncio.sleep and back to the loop test); the iteration's locals are dropped
Advance(list) ==
    /\ IF list = <<>>
       THEN /\ pc' = "loop"
            /\ thread' = NoThread
            /\ active_threads' = <<>>
       ELSE /\ pc' = "check"
            /\ thread' = Head(list)
            /\ active_threads' = Tail(list)
    /\ reply_check' = NoReply

\* a storage error in remove_expired_threads that ends the loop itself
Sweep_fatal(ok) ==
    /\ UNCHANGED <<fs, event>>
    /\ pc = "loop"
    /\ is_running
    /\ ok \in DbOutcomes
    /\ IF ok
       THEN /\ monitored_threads' = remove_expired_threads(monitored_threads, now)
            /\ pc' = "list"
            /\ sealed' = [t \in ThreadIds |->
                            IF Monitored(monitored_threads', t)
                            THEN sealed[t] ELSE NULL]
            /\ UNCHANGED dbFailures
       ELSE /\ pc' = "stopped"
            /\ dbFailures' = dbFailures + 1
            /\ UNCHANGED <<monitored_threads, sealed>>
    /\ UNCHANGED <<mailbox, now, is_running, active_threads, thread,
                   reply_check, last, handled, checked, pending>>

\* check_threads, step 1: await remove_expired_threads(); a storage error
\* ends the cycle in the outer except
Sweep(ok) ==
    /\ UNCHANGED <<fs, event>>
    /\ pc = "loop"
    /\ is_running
    /\ ok \in DbOutcomes
    /\ IF ok
       THEN /\ monitored_threads' = remove_expired_threads(monitored_threads, now)
            /\ pc' = "list"
            /\ sealed' = [t \in ThreadIds |->
                            IF Monitored(monitored_threads', t)
                            THEN sealed[t] ELSE NULL]
            /\ UNCHANGED dbFailures
       ELSE /\ pc' = "loop"
            /\ dbFailures' = dbFailures + 1
            /\ UNCHANGED <<monitored_threads, sealed>>
    /\ UNCHANGED <<mailbox, now, is_running, active_threads, thread,
                   reply_check, last, handled, checked, pending>>

Orders(S) ==
    {s \in [1..Cardinality(S) -> S] : \A i, j \in 1..Cardinality(S) : s[i] = s[j] => i = j}

\* check_threads, step 2: active_threads = await get_active_threads(), in
\* whatever order the database returns the rows
ListActive(ok) ==
    /\ UNCHANGED <<fs, event>>
    /\ pc = "list"
    /\ ok \in DbOutcomes
    /\ IF ~ok
       THEN /\ pc' = "loop"
            /\ dbFailures' = dbFailures + 1
            /\ UNCHANGED <<active_threads, thread, reply_check>>
       ELSE IF \E r \in get_active_threads(monitored_threads, now) : ~Parses(r)
       THEN \* the list comprehension raises: no list is returned
            /\ pc' = "loop"
            /\ UNCHANGED <<dbFailures, active_threads, thread, reply_check>>
       ELSE /\ \E list \in Orders(get_active_threads(monitored_threads, now)) :
                  Advance(list)
            /\ UNCHANGED dbFailures
    /\ UNCHANGED <<monitored_threads, mailbox, now, is_running, last, handled,
                   sealed, checked, pending>>

\* the first message of a conversation taken for a reply
check_email_replies_first(t, gmail_ok) ==
    IF ~gmail_ok
    THEN [status |-> "error", has_reply |-> FALSE, message_id |-> NULL, thread_id |-> t]
    ELSE IF Len(mailbox[t]) < 1
    THEN [status |-> "success", has_reply |-> FALSE, message_id |-> NULL, thread_id |-> t]
    ELSE [status |-> "success", has_reply |-> TRUE,
          message_id |-> Len(mailbox[t]), thread_id |-> t]

\* a retrieval that returns the oldest reply of the conversation
check_email_replies_oldest(t, gmail_ok) ==
    IF ~gmail_ok
    THEN [status |-> "error", has_reply |-> FALSE, message_id |-> NULL, thread_id |-> t]
    ELSE IF Len(mailbox[t]) <= 1
    THEN [status |-> "success", has_reply |-> FALSE, message_id |-> NULL, thread_id |-> t]
    ELSE [status |-> "success", has_reply |-> TRUE, message_id |-> 2, thread_id |-> t]

\* check_email_replies(thread_id): the result dictionary
check_email_replies(t, gmail_ok) ==
    IF ~gmail_ok
    THEN [status |-> "error", has_reply |-> FALSE, message_id |-> NULL, thread_id |-> t]
    ELSE IF Len(mailbox[t]) <= 1
    THEN [status |-> "success", has_reply |-> FALSE, message_id |-> NULL, thread_id |-> t]
    ELSE [status |-> "success", has_reply |-> TRUE,
          message_id |-> Len(mailbox[t]), thread_id |-> t]

\* a gate that does not look at the status of the retrieval
IsNewReply_any_status(rc, th) == rc.message_id # th.last_message_id

\* a gate that lets every reply through
IsNewReply_ungated(rc, th) ==
    /\ rc.status = "success"
    /\ rc.has_reply

\* the dedup gate of check_threads
IsNewReply(rc, th) ==
    /\ rc.status = "success"
    /\ rc.has_reply
    /\ rc.message_id # th.last_message_id

\* how the iteration for a thread went on after check_email_replies
Outcome(rc, th) ==
    IF rc.status # "success" THEN "error"
    ELSE IF ~rc.has_reply THEN "no_reply"
    ELSE IF rc.message_id # th.last_message_id THEN "new"
    ELSE "seen"

\* a check that hands every retrieved reply on, whatever the marker says
CheckReplies_unconditional(gmail_ok) ==
    /\ UNCHANGED <<fs, event>>
    /\ pc = "check"
    /\ checked' = [thread_id |-> thread.thread_id,
                   outcome |-> Outcome(check_email_replies(thread.thread_id, gmail_ok),
                                       thread)]
    /\ IF check_email_replies(thread.thread_id, gmail_ok).has_reply
       THEN /\ reply_check' = check_email_replies(thread.thread_id, gmail_ok)
            /\ pc' = "process"
            /\ UNCHANGED <<active_threads, thread>>
       ELSE Advance(active_threads)
    /\ UNCHANGED <<monitored_threads, mailbox, now, is_running, last, handled,
                   sealed, dbFailures, pending>>

\* check_threads, step 3: await check_email_replies(...) and the two ifs
CheckReplies(gmail_ok) ==
    /\ UNCHANGED <<fs, event>>
    /\ pc = "check"
    /\ checked' = [thread_id |-> thread.thread_id,
                   outcome |-> Outcome(check_email_replies(thread.thread_id, gmail_ok),
                                       thread)]
    /\ IF IsNewReply(check_email_replies(thread.thread_id, gmail_ok), thread)
       THEN /\ reply_check' = check_email_replies(thread.thread_id, gmail_ok)
            /\ pc' = "process"
            /\ UNCHANGED <<active_threads, thread>>
       ELSE Advance(active_threads)
    /\ UNCHANGED <<monitored_threads, mailbox, now, is_running, last, handled,
                   sealed, dbFailures, pending>>

\* check_threads, step 4: await process_candidate_reply(...); its email goes
\* out through send_email without thread_id
ProcessReply(an, cal_ok, mail, tg_ok) ==
    /\ UNCHANGED <<fs, event>>
    /\ pc = "process"
    /\ last' = process_candidate_reply(an, cal_ok, mail, tg_ok)
    /\ handled' = [handled EXCEPT ![thread.thread_id] = reply_check.message_id]
    /\ IF last'.email # "none"
       THEN send_email(thread.candidate_email, mail)
       ELSE /\ mail = "failed"
            /\ UNCHANGED <<mailbox, monitored_threads, dbFailures>>
    /\ pc' = "update"
    /\ UNCHANGED <<now, is_running, active_threads, thread, reply_check, sealed,
                   checked, pending>>

\* a storage error in the marker update taken to the outer except: the cycle ends
UpdateMarker_abort(ok) ==
    /\ UNCHANGED <<fs, event>>
    /\ pc = "update"
    /\ ok \in DbOutcomes
    /\ IF ok
       THEN /\ monitored_threads' =
                  update_thread_message_id(monitored_threads, thread.thread_id,
                                           reply_check.message_id)
            /\ Advance(active_threads)
            /\ UNCHANGED dbFailures
       ELSE /\ dbFailures' = dbFailures + 1
            /\ Advance(<<>>)
            /\ UNCHANGED monitored_threads
    /\ last' = NoEffects
    /\ UNCHANGED <<mailbox, now, is_running, handled, sealed, checked, pending>>

\* check_threads, step 5: await update_thread_message_id(...); a storage
\* error is logged by the inner except and the loop goes on
UpdateMarker(ok) ==
    /\ UNCHANGED <<fs, event>>
    /\ pc = "update"
    /\ ok \in DbOutcomes
    /\ IF ok
       THEN /\ monitored_threads' =
                  update_thread_message_id(monitored_threads, thread.thread_id,
                                           reply_check.message_id)
            /\ UNCHANGED dbFailures
       ELSE /\ dbFailures' = dbFailures + 1
            /\ UNCHANGED monitored_threads
    /\ Advance(active_threads)
    /\ last' = NoEffects
    /\ UNCHANGED <<mailbox, now, is_running, handled, sealed, checked, pending>>

\* ------------------------------------------- one cycle as a function
\* what the calls made for one thread return in a cycle: the retrieval, the
\* classifier, the calendar, the mail, the notification and the marker update
Env ==
    [gmail_ok : BOOLEAN, an : CoreAnalyses, cal_ok : BOOLEAN,
     mail : {"sent", "failed"}, tg_ok : {TRUE}, db_ok : BOOLEAN]

\* the id Gmail gives to the conversation opened by the email sent for t
NewIdFor(t) == MaxThreads + t

NoCalls == [check |-> "none", effects |-> NoEffects, update |-> NULL]

CycleStart == [tbl |-> monitored_threads, calls |-> [t \in ThreadIds |-> NoCalls]]

\* the body of the for loop for the listed row th: the table afterwards and
\* the calls made for the thread
HandleThread(st, th, e) ==
    LET rc == check_email_replies(th.thread_id, e.gmail_ok)
        eff == process_candidate_reply(e.an, e.cal_ok, e.mail, e.tg_ok)
        sent == IF eff.email # "none" /\ e.mail = "sent"
                THEN add_thread_to_monitor(st.tbl, NewIdFor(th.thread_id),
                                           th.candidate_email, DefaultHr,
                                           DefaultExpiryHours, now)
                ELSE st.tbl
    IN  IF IsNewReply(rc, th)
        THEN [tbl |-> IF e.db_ok
                      THEN update_thread_message_id(sent, th.thread_id, rc.message_id)
                      ELSE sent,
              calls |-> [st.calls EXCEPT ![th.thread_id] =
                            [check |-> "new", effects |-> eff,
                             update |-> rc.message_id]]]
        ELSE [tbl |-> st.tbl,
              calls |-> [st.calls EXCEPT ![th.thread_id] =
                            [check |-> Outcome(rc, th), effects |-> NoEffects,
                             update |-> NULL]]]

\* a loop that a failing marker update ends for the threads still to come
RECURSIVE RunCycle_abort(_, _, _)
RunCycle_abort(list, st, env) ==
    IF list = <<>> THEN st
    ELSE IF IsNewReply(check_email_replies(Head(list).thread_id,
                                           env[Head(list).thread_id].gmail_ok),
                       Head(list))
            /\ ~env[Head(list).thread_id].db_ok
    THEN HandleThread(st, Head(list), env[Head(list).thread_id])
    ELSE RunCycle_abort(Tail(list),
                        HandleThread(st, Head(list), env[Head(list).thread_id]), env)

\* for thread in active_threads, from the table and calls so far
RECURSIVE RunCycle(_, _, _)
RunCycle(list, st, env) ==
    IF list = <<>> THEN st
    ELSE RunCycle(Tail(list),
                  HandleThread(st, Head(list), env[Head(list).thread_id]), env)

Next ==
    \/ \E to \in {"c1@x"}, mail \in {"sent", "unregistered"} : SendEmailNew(to, mail)
    \/ \E to \in {"c2@x"}, mail \in {"sent", "unregistered"} :
          SendAndMonitorSend(to, mail)
    \/ \E h \in {"hr2"}, e \in {24} : SendAndMonitorRegister(h, e)
    \/ \E t \in ThreadIds : CandidateReply(t)
    \/ \E e \in ExpiryHoursChoices : Tick(e)
    \/ start_monitoring
    \/ stop_monitoring
    \/ LoopExit
    \/ \E ok \in BOOLEAN : Sweep(ok)
    \/ \E ok \in BOOLEAN : ListActive(ok)
    \/ \E g \in BOOLEAN : CheckReplies(g)
    \/ \E an \in CoreAnalyses, cal_ok \in BOOLEAN, tg_ok \in BOOLEAN,
          mail \in {"sent", "unregistered", "failed"} :
          ProcessReply(an, cal_ok, mail, tg_ok)
    \/ \E ok \in BOOLEAN : UpdateMarker(ok)

Spec == Init /\ [][Next]_vars

\* the steps of the start_monitoring coroutine once it runs: the event loop
\* resumes it whenever the call it awaits has returned
WatcherRun ==
    \/ LoopExit
    \/ \E ok \in BOOLEAN : Sweep(ok)
    \/ \E ok \in BOOLEAN : ListActive(ok)
    \/ \E g \in BOOLEAN : CheckReplies(g)
    \/ \E an \in CoreAnalyses, cal_ok \in BOOLEAN, tg_ok \in BOOLEAN,
          mail \in {"sent", "unregistered", "failed"} :
          ProcessReply(an, cal_ok, mail, tg_ok)
    \/ \E ok \in BOOLEAN : UpdateMarker(ok)

\* the watcher with its failures, started and stopped, in a world of
\* first-contact emails and candidate replies
NextLive ==
    \/ \E mail \in {"sent", "unregistered"} : SendEmailNew("c1@x", mail)
    \/ \E t \in ThreadIds : CandidateReply(t)
    \/ start_monitoring
    \/ stop_monitoring
    \/ WatcherRun

SpecLive == Init /\ [][NextLive]_vars /\ WF_vars(WatcherRun)

\* ------------------------------------------- reply handling in isolation
\* the watcher with every analysis the classifier can deliver, in a world of
\* first-contact emails and candidate replies, no storage failure
NextReply ==
    \/ \E to \in Candidates : SendEmailNew(to, "sent")
    \/ \E t \in ThreadIds : CandidateReply(t)
    \/ start_monitoring
    \/ Sweep(TRUE)
    \/ ListActive(TRUE)
    \/ \E g \in BOOLEAN : CheckReplies(g)
    \/ \E an \in Analyses, cal_ok \in BOOLEAN, tg_ok \in BOOLEAN,
          mail \in {"sent", "failed"} :
          ProcessReply(an, cal_ok, mail, tg_ok)
    \/ UpdateMarker(TRUE)

SpecReply == Init /\ [][NextReply]_vars

\* ------------------------------------------------- sending in isolation
\* the two tools that send mail, with every outcome of the send
NextSend ==
    \/ \E to \in Candidates, mail \in {"sent", "unregistered"} : SendEmailNew(to, mail)
    \/ \E t \in ThreadIds, ok \in BOOLEAN : SendEmailReply(t, ok)
    \/ \E to \in Candidates, mail \in {"sent", "unregistered"} :
          SendAndMonitorSend(to, mail)
    \/ \E h \in HrIds, e \in ExpiryHoursChoices : SendAndMonitorRegister(h, e)
    \/ \E e \in ExpiryHoursChoices : Tick(e)

SpecSend == Init /\ [][NextSend]_vars

\* ------------------------------------------------ the file tools in use
mailVars == <<monitored_threads, mailbox, now, dbFailures, pending, watcherVars, event>>

\* create_file on a path that does not exist
CreateFile(p, c) ==
    /\ fs.files[p] = Absent
    /\ fs' = [files |-> [fs.files EXCEPT ![p] = c], result |-> NoResult]
    /\ UNCHANGED mailVars

\* create_folder on a path that does not exist
CreateFolder ==
    /\ fs.files[Folder] = Absent
    /\ fs' = [files |-> [fs.files EXCEPT ![Folder] = Dir], result |-> NoResult]
    /\ UNCHANGED mailVars

CopyFile(s, d, ow, io) ==
    /\ fs' = [files |-> copy_file(fs.files, s, d, ow, io).files,
              result |-> FsResult("copy", copy_file(fs.files, s, d, ow, io).outcome,
                                  s, d, ow)]
    /\ UNCHANGED mailVars

MoveFile(s, d, ow, io) ==
    /\ fs' = [files |-> move_file(fs.files, s, d, ow, io).files,
              result |-> FsResult("move", move_file(fs.files, s, d, ow, io).outcome,
                                  s, d, ow)]
    /\ UNCHANGED mailVars

NextFiles ==
    \/ \E p \in Sources, c \in Contents : CreateFile(p, c)
    \/ CreateFolder
    \/ \E s \in Sources, d \in Dests, ow \in BOOLEAN, io \in BOOLEAN :
          CopyFile(s, d, ow, io)
    \/ \E s \in Sources, d \in Dests, ow \in BOOLEAN, io \in BOOLEAN :
          MoveFile(s, d, ow, io)

SpecFiles == Init /\ [][NextFiles]_vars

\* ------------------------------- the watcher beside replies sent by the system
\* the watcher in a world where the agent also answers inside a conversation
\* (send_email with thread_id), no storage or retrieval failure
NextInbound ==
    \/ \E to \in Candidates : SendEmailNew(to, "sent")
    \/ \E t \in ThreadIds : SendEmailReply(t, TRUE)
    \/ \E t \in ThreadIds : CandidateReply(t)
    \/ start_monitoring
    \/ Sweep(TRUE)
    \/ ListActive(TRUE)
    \/ CheckReplies(TRUE)
    \/ \E an \in CoreAnalyses, mail \in {"sent", "failed"} :
          ProcessReply(an, TRUE, mail, TRUE)
    \/ UpdateMarker(TRUE)

SpecInbound == Init /\ [][NextInbound]_vars

\* ------------------------------------------- a stored row that does not parse
\* the table is changed from outside the program so that the row of t no
\* longer validates as a MonitoredThread
CorruptRow(t) ==
    /\ UNCHANGED <<fs, event>>
    /\ Monitored(monitored_threads, t)
    /\ Parses(RowOf(monitored_threads, t))
    /\ monitored_threads' =
          {IF r.thread_id = t
           THEN Row(t, Unparseable, r.hr_telegram_id, r.expiry_time, r.last_message_id)
           ELSE r : r \in monitored_threads}
    /\ UNCHANGED <<mailbox, now, dbFailures, pending, watcherVars>>

NextData ==
    \/ \E to \in Candidates : SendEmailNew(to, "sent")
    \/ \E t \in ThreadIds : CandidateReply(t)
    \/ \E t \in ThreadIds : CorruptRow(t)
    \/ start_monitoring
    \/ Sweep(TRUE)
    \/ ListActive(TRUE)
    \/ CheckReplies(TRUE)
    \/ \E an \in CoreAnalyses : ProcessReply(an, TRUE, "sent", TRUE)
    \/ UpdateMarker(TRUE)

SpecData == Init /\ [][NextData]_vars

\* ------------------------------------------- the booking of an interview
\* the scheduling branch of process_candidate_reply up to its
\* create_calendar_event call; strptime raises on a string it cannot parse
\* and no event is requested
BookInterview(nowdt, confirm) ==
    /\ event' = IF confirm.given /\ ~confirm.parses
                THEN [NoEvent EXCEPT !.at = nowdt, !.confirm = confirm]
                ELSE [at |-> nowdt, confirm |-> confirm, created |-> TRUE,
                      start |-> meeting_time(nowdt, confirm),
                      end |-> end_time(meeting_time(nowdt, confirm))]
    /\ UNCHANGED <<monitored_threads, mailbox, now, dbFailures, pending,
                   watcherVars, fs>>

NextBooking == \E nowdt \in Nows, confirm \in ConfirmDatetimes : BookInterview(nowdt, confirm)

SpecBooking == Init /\ [][NextBooking]_vars

\* ------------------------------------------------- the table in isolation
\* the operations of the monitored_threads table called with any arguments
StoreAdd(t, c, h, e) ==
    /\ UNCHANGED <<fs, event>>
    /\ monitored_threads' = add_thread_to_monitor(monitored_threads, t, c, h, e, now)
    /\ UNCHANGED <<mailbox, now, dbFailures, pending, watcherVars>>

StoreUpdate(t, m) ==
    /\ UNCHANGED <<fs, event>>
    /\ monitored_threads' = update_thread_message_id(monitored_threads, t, m)
    /\ UNCHANGED <<mailbox, now, dbFailures, pending, watcherVars>>

StoreRemove(t) ==
    /\ UNCHANGED <<fs, event>>
    /\ monitored_threads' = remove_thread_from_monitor(monitored_threads, t)
    /\ UNCHANGED <<mailbox, now, dbFailures, pending, watcherVars>>

StoreSweep ==
    /\ UNCHANGED <<fs, event>>
    /\ monitored_threads' = remove_expired_threads(monitored_threads, now)
    /\ UNCHANGED <<mailbox, now, dbFailures, pending, watcherVars>>

NextStore ==
    \/ \E t \in ThreadIds, c \in Candidates, h \in HrIds, e \in ExpiryHoursChoices :
          StoreAdd(t, c, h, e)
    \/ \E t \in ThreadIds, m \in MsgIds : StoreUpdate(t, m)
    \/ \E t \in ThreadIds : StoreRemove(t)
    \/ StoreSweep
    \/ \E e \in ExpiryHoursChoices : Tick(e)

SpecStore == Init /\ [][NextStore]_vars

\* ================================================================ claims
Current == thread.thread_id

Declines(an) ==
    /\ Complete(an)
    /\ ~an.agrees_to_schedule
    /\ an.confidence_score >= Threshold
    /\ an.suggested_action # "request_clarification"

LowOrAmbiguous(an) ==
    /\ Complete(an)
    /\ \/ an.confidence_score < Threshold
       \/ ~an.agrees_to_schedule /\ an.suggested_action = "request_clarification"

\* the step in which check_threads finishes the reply it has just processed
Finishing == pc = "update" /\ pc' # "update"

C2_CalendarFailureKeepsMarker ==
    [][(pc = "update" /\ last.calendar = "failed")
        => Marker(monitored_threads', Current) = Marker(monitored_threads, Current)]_vars

\* C3: for a reply whose analysis has a confidence below the threshold,
\* send_telegram_message is called and create_calendar_event is not
C3_LowConfidenceEscalates ==
    (pc = "update" /\ Complete(last.analysis)
        /\ last.analysis.confidence_score < Threshold)
    => (last.notify \in {"sent", "failed"} /\ last.calendar = "none")

\* a low-confidence agreement was processed and escalated
C3_LowConfidenceAgreementSeen ==
    /\ pc = "update"
    /\ Complete(last.analysis)
    /\ last.analysis.agrees_to_schedule
    /\ last.analysis.confidence_score < Threshold
    /\ last.analysis.suggested_action = "schedule_interview"
    /\ last.notify = "sent"

\* C4: an agreeing reply with confidence >= 0.5 gets one create_calendar_event
\* call, the confirmation email exactly when that call succeeded, and then
\* the thread is gone from monitored_threads
C4_AgreeingReplyIsTerminal ==
    [][(Finishing /\ Complete(last.analysis) /\ Schedules(last.analysis))
        => /\ last.calendar \in {"created", "failed"}
           /\ (last.email = "confirmation") = (last.calendar = "created")
           /\ (last.calendar = "created" => ~Monitored(monitored_threads', Current))]_vars

\* C5: a declining reply with confidence >= 0.5 gets the decline
\* acknowledgement and one notification, no calendar call, and then the
\* thread is gone from monitored_threads
C5_DecliningReplyIsTerminal ==
    [][(Finishing /\ Declines(last.analysis))
        => /\ last.email = "decline_ack"
           /\ last.notify \in {"sent", "failed"}
           /\ last.calendar = "none"
           /\ ~Monitored(monitored_threads', Current)]_vars

\* C6: an ambiguous or low-confidence reply gets the clarification request
\* (never the decline acknowledgement) and one notification, its marker is
\* advanced to the reply and the thread stays monitored
C6_AmbiguousKeepsWatch ==
    [][(Finishing /\ LowOrAmbiguous(last.analysis))
        => /\ last.email = "clarification"
           /\ last.notify \in {"sent", "failed"}
           /\ Monitored(monitored_threads', Current)
           /\ Marker(monitored_threads', Current) = reply_check.message_id]_vars

\* C7: a thread whose conversation has at most one message is never given to
\* process_candidate_reply and its marker is never written: every check of it
\* ends without a reply
C7_NoReplyNoAction ==
    \A t \in ThreadIds :
        Len(mailbox[t]) <= 1 =>
            /\ handled[t] = NULL
            /\ Marker(monitored_threads, t) = NULL
            /\ ~(pc \in {"process", "update"} /\ Current = t)
            /\ (checked.thread_id = t => checked.outcome \in {"no_reply", "error"})

\* a monitored thread with only its first message was checked
C7_FirstMessageOnlyChecked ==
    /\ checked.outcome = "no_reply"
    /\ Len(mailbox[checked.thread_id]) = 1
    /\ Monitored(monitored_threads, checked.thread_id)

\* C8: a thread whose expiry_time has passed is not processed
C8_ExpiredNeverProcessed ==
    pc = "process" =>
        \A r \in RowsOf(monitored_threads, Current) : r.expiry_time > now

\* C9: there is at most one row per thread_id, and add_thread_to_monitor
\* leaves exactly one row for its thread, with the given contacts, the new
\* expiry and the last_message_id the thread had (none for a new thread),
\* and leaves the other rows alone
C9_IdempotentUpsert ==
    /\ \A t \in ThreadIds : Cardinality(RowsOf(monitored_threads, t)) <= 1
    /\ \A t \in ThreadIds, c \in Candidates, h \in HrIds, e \in ExpiryHoursChoices :
          LET after == add_thread_to_monitor(monitored_threads, t, c, h, e, now) IN
          /\ RowsOf(after, t) = {Row(t, c, h, now + e, Marker(monitored_threads, t))}
          /\ remove_thread_from_monitor(after, t)
                = remove_thread_from_monitor(monitored_threads, t)

\* two stored rows, one of them with a marker for a registration to keep
C9_MarkedRowStored ==
    /\ Cardinality(monitored_threads) = MaxThreads
    /\ \E r \in monitored_threads :
          /\ r.last_message_id # NULL
          /\ r.candidate_email = "c2@x"
          /\ r.hr_telegram_id = "hr2"

\* C10: a reply whose id was the persisted marker when start_monitoring began
\* is not processed in that run
C10_MarkerSurvivesRestart ==
    pc = "process" => sealed[Current] # reply_check.message_id

\* after a restart, a check found the reply marked before it and skipped it
C10_SkippedAfterRestart ==
    /\ checked.outcome = "seen"
    /\ sealed[checked.thread_id] # NULL
    /\ sealed[checked.thread_id] = Len(mailbox[checked.thread_id])

\* a step of the watcher inside the for loop of check_threads
LoopStep == pc \in {"check", "process", "update"} /\ (pc' # pc \/ thread' # thread)

\* the for loop goes on with the next listed thread, or the cycle ends
\* because the list is exhausted
GoesOn ==
    IF active_threads = <<>>
    THEN pc' = "loop"
    ELSE /\ pc' = "check"
         /\ thread' = Head(active_threads)
         /\ active_threads' = Tail(active_threads)

\* the iteration for the current thread ends in this step after a failure:
\* Gmail retrieval failed, process_candidate_reply returned an error, or the
\* marker update raised
FailedIteration ==
    /\ LoopStep
    /\ \/ pc = "check" /\ checked'.outcome = "error"
       \/ pc = "update" /\ last.status = "error"
       \/ pc = "update" /\ dbFailures' # dbFailures

C12_MailFailureLeavesState ==
    [][(LoopStep /\ pc = "check" /\ checked'.outcome = "error")
        => /\ monitored_threads' = monitored_threads
           /\ mailbox' = mailbox
           /\ handled' = handled
           /\ last' = NoEffects
           /\ pc' # "process"
           /\ GoesOn]_vars

\* the retrieval failed for a marked thread with a newer reply waiting: the
\* reply is unhandled and the marker is the older one
C12_ReplyWaitsAfterMailError ==
    /\ checked.outcome = "error"
    /\ Monitored(monitored_threads, checked.thread_id)
    /\ Marker(monitored_threads, checked.thread_id) # NULL
    /\ Marker(monitored_threads, checked.thread_id) < Len(mailbox[checked.thread_id])
    /\ handled[checked.thread_id] < Len(mailbox[checked.thread_id])

\* a step of the watcher that fails on storage before any thread is taken up
StorageAbort ==
    /\ pc \in {"loop", "list"}
    /\ dbFailures' # dbFailures
    /\ mailbox' = mailbox

\* C13: the monitoring loop is left only with the flag cleared by
\* stop_monitoring; a storage failure in remove_expired_threads or
\* get_active_threads ends the cycle with no thread taken up and no row
\* changed, and the loop stands at its test again; while the flag is set,
\* every cycle comes to an end and another one begins
C13_PollerSurvives ==
    /\ [][(pc # "stopped" /\ pc' = "stopped") => ~is_running]_vars
    /\ [][StorageAbort
            => /\ pc' = "loop"
               /\ is_running' = is_running
               /\ thread' = NoThread /\ active_threads' = <<>>
               /\ monitored_threads' = monitored_threads
               /\ handled' = handled]_vars
    /\ (pc \notin {"stopped", "loop"}) ~> (pc = "loop")
    /\ (pc = "loop" /\ is_running) ~> (pc = "list" \/ ~is_running)

\* the loop stands at its test, still running, after a cycle that storage
\* failed before any thread was taken up (every send was registered, the
\* waiting reply is unhandled)
C13_RunningAfterStorageFailure ==
    /\ pc = "loop"
    /\ is_running
    /\ dbFailures > 0
    /\ \A u \in ThreadIds : Exists(u) => Monitored(monitored_threads, u)
    /\ \E t \in ThreadIds :
          /\ Monitored(monitored_threads, t)
          /\ Len(mailbox[t]) > 1
          /\ handled[t] = NULL

\* C14: once stop_monitoring has cleared the flag, the loop is left only at
\* its test, between cycles, with no thread in hand (the cycle in flight
\* runs through every listed thread and its marker update); from the test no
\* new cycle begins; and the loop does exit
C14_CleanStop ==
    /\ [][(pc # "stopped" /\ pc' = "stopped")
            => (pc = "loop" /\ thread = NoThread /\ active_threads = <<>>
                /\ last = NoEffects)]_vars
    /\ [][(~is_running /\ pc = "loop") => pc' \in {"loop", "stopped"}]_vars
    /\ [][(~is_running /\ LoopStep)
            => (pc' = "process" \/ pc' = "update" \/ GoesOn)]_vars
    /\ (~is_running /\ pc # "stopped") ~> (pc = "stopped")

\* the flag is cleared while a reply has been acted on and its marker is
\* not written yet, with another listed thread still to come
C14_StopInFlight ==
    /\ ~is_running
    /\ pc = "update"
    /\ active_threads # <<>>

\* C15: a send_email without thread_id that returns success leaves the new
\* thread in monitored_threads with the recipient as candidate; a send_email
\* with thread_id leaves monitored_threads as it is; and
\* send_and_monitor_candidate_email goes on to register only a thread whose
\* send returned success
C15_SendCouplesWithRegistration ==
    /\ [][\A to \in Candidates, mail \in {"sent", "unregistered"} :
            ((SendEmailNew(to, mail) \/ SendAndMonitorSend(to, mail))
                /\ MailStatus(mail) = "success")
            => /\ Cardinality(RowsOf(monitored_threads', NewThreadId)) = 1
               /\ RowOf(monitored_threads', NewThreadId).candidate_email = to
               /\ RowOf(monitored_threads', NewThreadId).last_message_id = NULL]_vars
    /\ [][\A t \in ThreadIds, ok \in BOOLEAN :
            SendEmailReply(t, ok) => monitored_threads' = monitored_threads]_vars
    /\ [][\A to \in Candidates, mail \in {"sent", "unregistered"} :
            SendAndMonitorSend(to, mail)
            => (pending' # NoPending) = (MailStatus(mail) = "success")]_vars
    /\ [][\A h \in HrIds, e \in ExpiryHoursChoices :
            SendAndMonitorRegister(h, e)
            => /\ Monitored(monitored_threads, pending.thread_id)
               /\ \A t \in ThreadIds \ {pending.thread_id} :
                     RowsOf(monitored_threads', t) = RowsOf(monitored_threads, t)]_vars

\* send_and_monitor_candidate_email has sent and is about to register, and
\* a reply was sent inside another conversation
C15_SentRepliedAndPending ==
    /\ pending # NoPending
    /\ Monitored(monitored_threads, pending.thread_id)
    /\ \E t \in ThreadIds \ {pending.thread_id} :
          /\ Len(mailbox[t]) > 1
          /\ mailbox[t][Len(mailbox[t])] = "system"

\* C16: a reply whose classifier output is not a usable analysis (not
\* parseable, or a required field missing) is escalated: send_telegram_message
\* is called for it
C16_MalformedOutputEscalates ==
    (pc = "update" /\ ~Complete(last.analysis))
    => last.notify \in {"sent", "failed"}

C18_HandlingAddsNoThread ==
    [][(pc = "process" /\ pc' = "update")
        => \A t \in ThreadIds :
              Monitored(monitored_threads', t) => Monitored(monitored_threads, t)]_vars

\* a call of copy_file, or of move_file, with an existing file as source
CopyStep(s, d, ow) ==
    /\ \E io \in BOOLEAN : CopyFile(s, d, ow, io)
    /\ fs.files[s] \in Contents

MoveStep(s, d, ow) ==
    /\ \E io \in BOOLEAN : MoveFile(s, d, ow, io)
    /\ fs.files[s] \in Contents

\* C19 as stated: with overwrite False and an existing destination both
\* tools raise FileExistsError and change nothing; a successful call leaves
\* the source's content at the destination; after a successful move the
\* source path does not exist, after a successful copy the source is as it was
C19_OverwriteProtection ==
    [][\A s \in Sources, d \in Dests, ow \in BOOLEAN :
        (CopyStep(s, d, ow) \/ MoveStep(s, d, ow))
        => /\ (~ow /\ fs.files[d] # Absent)
                => (fs'.result.outcome = "FileExistsError" /\ fs'.files = fs.files)
           /\ fs'.result.outcome = "success"
                => /\ fs'.files[d] = fs.files[s]
                   /\ MoveStep(s, d, ow) => fs'.files[s] = Absent
                   /\ CopyStep(s, d, ow) => fs'.files[s] = fs.files[s]]_vars

\* C19 as amended: the same, where the destination of a successful call is
\* another path than the source and not a folder
C19_OverwriteProtectionOfFiles ==
    [][\A s \in Sources, d \in Dests, ow \in BOOLEAN :
        (CopyStep(s, d, ow) \/ MoveStep(s, d, ow))
        => /\ (~ow /\ fs.files[d] # Absent)
                => (fs'.result.outcome = "FileExistsError" /\ fs'.files = fs.files)
           /\ (fs'.result.outcome = "success" /\ d # s /\ fs.files[d] # Dir)
                => /\ fs'.files[d] = fs.files[s]
                   /\ MoveStep(s, d, ow) => fs'.files[s] = Absent
                   /\ CopyStep(s, d, ow) => fs'.files[s] = fs.files[s]
                   /\ \A p \in Paths \ {s, d} : fs'.files[p] = fs.files[p]]_vars

\* a move with overwrite has put the content of a over the file at b
C19_MovedOverExisting ==
    /\ fs.result = FsResult("move", "success", "a", "b", TRUE)
    /\ fs.files["a"] = Absent
    /\ fs.files["b"] \in Contents
    /\ fs.files[Folder] = Dir

\* C20: whenever the watcher is at or past process_candidate_reply for a
\* thread, the latest message id has been compared with the listed row's
\* last_message_id and differs from it; nothing is handled and no effect is
\* produced from anywhere else; and a check that finds the two equal goes on
\* to the next thread with nothing sent, written or handled
C20_GateBeforeEffects ==
    /\ [][(pc' \in {"process", "update"})
            => /\ reply_check'.status = "success"
               /\ reply_check'.has_reply
               /\ reply_check'.message_id # thread'.last_message_id
               /\ checked' = [thread_id |-> thread'.thread_id, outcome |-> "new"]]_vars
    /\ [][(handled' # handled \/ last' \notin {last, NoEffects})
            => (pc = "process" /\ IsNewReply(reply_check, thread))]_vars
    /\ [][(pc = "check" /\ LoopStep /\ checked'.outcome = "seen")
            => /\ GoesOn
               /\ mailbox' = mailbox
               /\ monitored_threads' = monitored_threads
               /\ handled' = handled
               /\ last' = NoEffects]_vars

\* the gate found the latest message of one thread equal to its marker and
\* the loop stands at the next listed thread
C20_EqualSkippedNextInHand ==
    /\ pc = "check"
    /\ checked.outcome = "seen"
    /\ checked.thread_id \in ThreadIds \ {Current}
    /\ Marker(monitored_threads, checked.thread_id) = Len(mailbox[checked.thread_id])
    /\ active_threads = <<>>

\* C21: when process_candidate_reply ended with an error for a reply, the
\* step that finishes the reply leaves the thread's last_message_id as it was
C21_MarkerOnlyOnSuccess ==
    [][(Finishing /\ last.status = "error")
        => Marker(monitored_threads', Current) = Marker(monitored_threads, Current)]_vars

\* the first day after d that is not a Saturday or a Sunday
NextBusinessDay(d) ==
    CHOOSE n \in (d + 1)..(d + 3) :
        /\ Weekday(n) \notin Weekend
        /\ \A k \in (d + 1)..(n - 1) : Weekday(k) \in Weekend

\* C22: an event requested without confirm_datetime starts at 10:00 on the
\* next business day, one requested with it starts at that datetime, and
\* every event ends exactly one hour after it starts
C22_ResolvedMeetingTime ==
    event.created =>
        /\ ~event.confirm.given
              => event.start = DateTime(NextBusinessDay(event.at.day), TenOClock)
        /\ event.confirm.given => event.start = event.confirm.dt
        /\ event.end.day * MinutesPerDay + event.end.minute
              = event.start.day * MinutesPerDay + event.start.minute + OneHour

\* C23: a listing step taken while some active row parses goes on to check a
\* thread, whatever other rows the table holds
C23_UnparseableRowSkippedAlone ==
    [][(pc = "list" /\ pc' # "list"
        /\ \E r \in get_active_threads(monitored_threads, now) : Parses(r))
       => pc' = "check"]_vars

\* the rows a list names
Listed(list) == {list[i] : i \in 1..Len(list)}

\* C24: a sweep that succeeds deletes exactly the rows with expiry_time <= now
\* and leaves every other row as it was; a listing returns exactly the rows
\* with expiry_time > now and leaves the table as it was; every stored row is
\* either active or eligible for the sweep and never both
C24_SweepAndListingPartition ==
    [][LET eligible == {r \in monitored_threads : r.expiry_time <= now}
           active == get_active_threads(monitored_threads, now)
       IN  /\ (pc = "loop" /\ pc' = "list")
                 => monitored_threads' = monitored_threads \ eligible
           /\ (pc = "list" /\ pc' # "list")
                 => monitored_threads' = monitored_threads
           /\ (pc = "list" /\ pc' = "check")
                 => /\ Listed(<<thread'>> \o active_threads') = active
                    /\ Len(active_threads') + 1 = Cardinality(active)
           /\ active \cup (monitored_threads \ remove_expired_threads(monitored_threads, now))
                 = monitored_threads
           /\ active \cap (monitored_threads \ remove_expired_threads(monitored_threads, now))
                 = {}]_vars

\* a listing returned one thread while another row expires at this instant
C24_ListedBesideExpiring ==
    /\ pc = "check"
    /\ thread.expiry_time > now
    /\ \E r \in monitored_threads : r.expiry_time = now

\* C25: with the same outcomes of the calls made for each thread, a cycle
\* leaves the same table and makes the same calls for each thread in whatever
\* order the listing returned the active threads
C25_OrderIndependence ==
    pc = "list" =>
        \A env \in [ThreadIds -> Env] :
            \A l1, l2 \in Orders(get_active_threads(monitored_threads, now)) :
                RunCycle(l1, CycleStart, env) = RunCycle(l2, CycleStart, env)

\* a listing is due with two active threads that both hold an unseen reply
C25_TwoThreadsWithReplies ==
    /\ pc = "list"
    /\ Cardinality(get_active_threads(monitored_threads, now)) = MaxThreads
    /\ \A r \in get_active_threads(monitored_threads, now) :
          IsNewReply(check_email_replies(r.thread_id, TRUE), r)

\* C26: the message handed to the handler, and the message a stored
\* last_message_id names, was sent by the candidate
C26_OnlyInboundReplies ==
    /\ pc \in {"process", "update"}
          => mailbox[Current][reply_check.message_id] = "candidate"
    /\ \A r \in monitored_threads :
          r.last_message_id # NULL
              => mailbox[r.thread_id][r.last_message_id] = "candidate"

\* C27: the reply a check hands to the handler is the last message of its
\* conversation; a thread is listed once per cycle; a marker that changes when
\* the reply is finished becomes that reply's id; and the handler is never
\* given a message older than one it was given before
C27_LatestOnly ==
    [][/\ (pc = "check" /\ pc' = "process")
             => reply_check'.message_id = Len(mailbox[Current])
       /\ (pc = "list" /\ pc' = "check")
             => \A r \in Listed(active_threads') : r.thread_id # thread'.thread_id
       /\ (Finishing /\ Marker(monitored_threads', Current)
                            # Marker(monitored_threads, Current))
             => Marker(monitored_threads', Current) = reply_check.message_id
       /\ \A t \in ThreadIds : handled'[t] >= handled[t]]_vars

\* two replies came in before the first poll of the thread: the second one is
\* with the handler and the first one was never handled
C27_TwoRepliesLastInHand ==
    /\ pc = "process"
    /\ reply_check.message_id = 3
    /\ handled[Current] = NULL
    /\ Marker(monitored_threads, Current) = NULL

\* C28: once stop_monitoring has cleared the flag while the loop was not yet
\* running, a loop that runs afterwards comes to its exit
C28_StopNeverLost ==
    []((~is_running /\ pc = "stopped") => [](pc # "stopped" => <>(pc = "stopped")))

\* the step in which send_and_monitor_candidate_email registers its thread
Registers == pending # NoPending /\ pending' = NoPending

\* C29: a registration leaves its thread's row with the registration's
\* contact and expiry and the last_message_id the row had; a marker update
\* that changes the table leaves its thread's row with the contact and expiry
\* the row had and the handled reply's id; neither touches another row; and
\* update_thread_message_id for a thread without a row leaves the table as it is
C29_RegistrationAndMarkerKeepEachOther ==
    /\ [][Registers =>
            /\ \E h \in HrIds, e \in ExpiryHoursChoices :
                  RowsOf(monitored_threads', pending.thread_id)
                      = {Row(pending.thread_id, pending.candidate_email, h, now + e,
                             Marker(monitored_threads, pending.thread_id))}
            /\ \A t \in ThreadIds \ {pending.thread_id} :
                  RowsOf(monitored_threads', t) = RowsOf(monitored_threads, t)]_vars
    /\ [][(Finishing /\ monitored_threads' # monitored_threads) =>
            /\ RowsOf(monitored_threads', Current)
                  = {Row(Current, r.candidate_email, r.hr_telegram_id, r.expiry_time,
                         reply_check.message_id) : r \in RowsOf(monitored_threads, Current)}
            /\ \A t \in ThreadIds \ {Current} :
                  RowsOf(monitored_threads', t) = RowsOf(monitored_threads, t)]_vars
    /\ [](\A t \in ThreadIds, m \in MsgIds :
            ~Monitored(monitored_threads, t)
                => update_thread_message_id(monitored_threads, t, m) = monitored_threads)

\* the thread in hand was registered again, with another contact, after it
\* was listed and before its marker is written, while another thread has no row
C29_ReregisteredWhileHandled ==
    /\ pc = "update"
    /\ Monitored(monitored_threads, Current)
    /\ RowOf(monitored_threads, Current).hr_telegram_id # thread.hr_telegram_id
    /\ \E t \in ThreadIds : ~Monitored(monitored_threads, t)

\* C30: a send_email call whose result has status "failed" has put no
\* message into any conversation
C30_FailedMeansNothingSent ==
    [][\A to \in Candidates, mail \in {"sent", "unregistered"} :
          (SendEmailNew(to, mail) /\ MailStatus(mail) = "failed")
              => mailbox' = mailbox]_vars

TypeOK ==
    /\ \A r \in monitored_threads : r.thread_id \in ThreadIds
    /\ now \in 0..MaxTime
    /\ pc \in {"stopped", "loop", "list", "check", "process", "update"}
====
